---- MODULE Spec2Model ----
(***************************************************************************)
(* State-machine model of src/main.py, the Streamlit OneDrive explorer.    *)
(*                                                                         *)
(* One action is one run of the script main() (a render pass): Streamlit   *)
(* runs the on_click callback of the clicked widget, then executes main()  *)
(* from the top until it ends, calls st.stop(), calls st.rerun() or raises.*)
(* Text is modelled as sequences of code points, so that upper(),          *)
(* startswith() and the ordering used by sorted() are computed.            *)
(***************************************************************************)
EXTENDS Integers, Sequences, FiniteSets, TLC

None == "None"

(* ------------------------------ bounds -------------------------------- *)

\* Items per page of the remote listing.
PageSize == 1
\* Seconds by which one Tick advances the clock.
TickStep == 600

\* st.cache_data(ttl=600)
TTL == 600

(* ------------------------------- text --------------------------------- *)

\* str.upper() on one code point (ASCII letters)
UpperChar(c) == IF c >= 97 /\ c <= 122 THEN c - 32 ELSE c

\* name.upper()
Upper(s) == [i \in 1..Len(s) |-> UpperChar(s[i])]

\* s.startswith(p) for one prefix p
StartsWith(s, p) == Len(s) >= Len(p) /\ SubSeq(s, 1, Len(p)) = p

\* HIDE_PREFIXES = ("MEX-", "NIA-")
HIDE_PREFIXES == << <<77, 69, 88, 45>>, <<78, 73, 65, 45>> >>

\* s.startswith(HIDE_PREFIXES): true when s starts with any element of the tuple
StartsWithAny(s, ps) == \E k \in 1..Len(ps) : StartsWith(s, ps[k])

\* Python's str "<": lexicographic on code points, a proper prefix is smaller
RECURSIVE StrLess(_, _)
StrLess(a, b) ==
    IF b = <<>> THEN FALSE
    ELSE IF a = <<>> THEN TRUE
    ELSE IF a[1] # b[1] THEN a[1] < b[1]
    ELSE StrLess(Tail(a), Tail(b))

\* name.upper().startswith(HIDE_PREFIXES), without the root test (mutant of
\* _is_hidden_at_root: the filter applied in every folder)
IsHiddenAnywhere(name, item_id) == StartsWithAny(Upper(name), HIDE_PREFIXES)

\* case-sensitive comparison (mutant of _is_hidden_at_root: upper() dropped)
IsHiddenCaseSensitive(name, item_id) ==
    item_id = "root" /\ StartsWithAny(name, HIDE_PREFIXES)

\* _is_hidden_at_root(name, item_id)
IsHiddenAtRoot(name, item_id) ==
    item_id = "root" /\ StartsWithAny(Upper(name), HIDE_PREFIXES)

(* --------------------------- the remote drive -------------------------- *)

\* "Root"
RootName == <<82, 111, 111, 116>>

\* A drive item as the listing returns it: the facets are the keys "folder" /
\* "file" present in the JSON object, url is "@microsoft.graph.downloadUrl".
Item(id, name, facets, url) ==
    [id |-> id, name |-> name, facets |-> facets, url |-> url]

\* The drive the session browses.  Names:
\*   "MEX-r" (file f1), "mex-h" (folder H), "Arc" (folder A) in the root;
\*   "n.t" (file f2, no download URL), "e.b" (file f3, zero bytes),
\*   "NIA-x" (folder B) and "nb" (a notebook package P: neither facet) in A;
\*   B and H are empty.
RemoteChildren(item_id) ==
    CASE item_id = "root" ->
           << Item("f1", <<77, 69, 88, 45, 114>>, {"file"}, "u1"),
              Item("H", <<109, 101, 120, 45, 104>>, {"folder"}, None),
              Item("A", <<65, 114, 99>>, {"folder"}, None) >>
      [] item_id = "A" ->
           << Item("f2", <<110, 46, 116>>, {"file"}, None),
              Item("f3", <<101, 46, 98>>, {"file"}, "u3"),
              Item("B", <<78, 73, 65, 45, 120>>, {"folder"}, None),
              Item("P", <<110, 98>>, {}, None) >>
      [] OTHER -> <<>>

FolderIds == {"root", "A", "B", "H"}
\* the folders a screen can show as a breadcrumb after the root's
CrumbIds == {"A", "B"}
FileIds == {"f1", "f2", "f3"}

\* listItem.fields of a file, a mapping given as its set of (key, value)
\* pairs: only f1 carries QCDocumentNumber
RemoteFields(file_id) ==
    IF file_id = "f1" THEN {<<"QCDocumentNumber", "QC-1">>} ELSE {}

\* The bytes behind a download URL: f3 is a zero-byte file
RemoteContent(url) == IF url = "u1" THEN "data" ELSE ""

(* ------------------------------- state -------------------------------- *)

VARIABLES
    path,                \* st.session_state.path: sequence of <<name, id>>
    download_target_id,  \* st.session_state.download_target_id
    childrenCache,       \* st.cache_data of get_drive_children_cached
    fieldsCache,         \* st.cache_data of get_sharepoint_fields_cached
    contentCache,        \* st.cache_data of get_file_content_from_url_cached
    secrets,             \* st.secrets: "ok", "missing" (a key is absent) or
                         \*   "empty" (a value is the empty string)
    tokenIssued,         \* whether the identity service has issued a token
    status,              \* how the last script run ended: "ok", "rerun"
                         \*   (st.rerun), "stopped" (st.stop), "crashed"
    widgets,             \* keys of the widgets the last run rendered
    rows,                \* file rows the last run rendered: [id, qc]
    view,                \* folder_id / children / folders / files the last
                         \*   run computed in display_folder_contents
    trace,               \* calls of the cached functions in the last run
    ev,                  \* the widget whose click started the last run
                         \*   (NoEvent: no widget; TickEvent: time passed)
    fired,               \* the button that returned True in the last run
    before,              \* the download state on the screen the last run
                         \*   replaced
    session              \* the browser session whose session state and
                         \*   screen the variables above hold

vars == <<path, download_target_id, childrenCache, fieldsCache, contentCache,
          secrets, tokenIssued, status, widgets, rows, view, trace,
          ev, fired, before, session>>

Min(a, b) == IF a < b THEN a ELSE b
Max(a, b) == IF a > b THEN a ELSE b

(* ---------------------- the remote listing, paged ---------------------- *)

\* Number of pages of a folder's listing (an empty folder has one empty page)
NumPages(item_id) ==
    LET n == Len(RemoteChildren(item_id)) IN
    IF n = 0 THEN 1 ELSE (n + PageSize - 1) \div PageSize

\* data.get("@odata.nextLink") when the key is absent
NoLink == 0

\* One response of GET .../children: the page's "value" and "@odata.nextLink"
\* (a page URL is modelled by the page's number; the first URL is page 1)
RemotePage(item_id, url) ==
    LET all == RemoteChildren(item_id)
        n   == Len(all)
    IN [value    |-> SubSeq(all, (url - 1) * PageSize + 1, Min(url * PageSize, n)),
        nextLink |-> IF url * PageSize < n THEN url + 1 ELSE NoLink]

(* ------------------------- widgets and run records --------------------- *)

\* key=f"crumb_{item_id}", f"open_{id}", f"download_{id}", f"final_dl_{id}",
\* f"retry_{id}", f"ok_err_{id}"
Widget(kind, id) == <<kind, id>>

\* no widget: a run started by st.rerun(), by the browser, or the first run
NoEvent == Widget("none", "none")

NoView == [folder_id |-> None, children |-> <<>>, folders |-> <<>>, files |-> <<>>]

\* The state a script run works on; ret carries a call's return value.
RunStart ==
    [path |-> path, target |-> download_target_id,
     cc |-> childrenCache, fc |-> fieldsCache, dc |-> contentCache,
     widgets |-> {}, rows |-> <<>>, view |-> NoView, trace |-> <<>>,
     status |-> "ok", fired |-> NoEvent, newToken |-> FALSE, ret |-> None,
     session |-> session]

\* A widget is rendered; a key rendered twice in one run raises
\* DuplicateWidgetID.
Render(r, w) ==
    IF w \in r.widgets THEN [r EXCEPT !.status = "crashed"]
    ELSE [r EXCEPT !.widgets = @ \cup {w}]

\* A call of a cached function is recorded in the run's trace.
Called(r, fn, arg, hit, requests, error) ==
    [r EXCEPT !.trace = Append(@, [fn |-> fn, arg |-> arg, hit |-> hit,
                                   requests |-> requests, error |-> error])]

(* ------------------------- the cached functions ------------------------ *)
(* A call whose outcome depends on the remote side is modelled by the set  *)
(* of its outcomes: every request may succeed or raise.                    *)

\* the while loop that stops after the first page (mutant of FetchChildren:
\* @odata.nextLink is not followed)
FetchFirstPageOnly(item_id, url, items, requests) ==
    {[items |-> items, requests |-> requests + 1, error |-> TRUE],
     [items |-> items \o RemotePage(item_id, url).value,
      requests |-> requests + 1, error |-> FALSE]}

\* the while loop of get_drive_children_cached, from page `url` on: what the
\* function returns, the number of requests made, whether one raised
RECURSIVE FetchChildren(_, _, _, _)
FetchChildren(item_id, url, items, requests) ==
    IF url = NoLink
    THEN {[items |-> items, requests |-> requests, error |-> FALSE]}
    ELSE {[items |-> items, requests |-> requests + 1, error |-> TRUE]}
         \cup (LET data == RemotePage(item_id, url) IN
               FetchChildren(item_id, data.nextLink, items \o data.value,
                             requests + 1))

\* get_drive_children_cached(_drive_id, item_id, headers): the cache key is
\* (item_id, headers); _drive_id is left out of it (leading underscore).  The
\* caches keyed by headers hold the entries stored under the headers of this
\* run (see HeadersCache), so item_id stands for the key here.  Both except
\* branches return items, and st.cache_data stores whatever is returned.
GetDriveChildrenCached(r, item_id) ==
    IF item_id \in DOMAIN r.cc
    THEN {Called([r EXCEPT !.ret = r.cc[item_id].value],
                 "children", item_id, TRUE, 0, FALSE)}
    ELSE {Called([r EXCEPT !.ret = f.items,
                           !.cc = (item_id :> [value |-> f.items, age |-> 0,
                                               by |-> r.session]) @@ @],
                 "children", item_id, FALSE, f.requests, f.error)
          : f \in FetchChildren(item_id, 1, <<>>, 0)}

\* get_file_content_from_url_cached(download_url): the return value, None
\* included, is cached under the URL
GetFileContentFromUrlCached(r, download_url) ==
    IF download_url \in DOMAIN r.dc
    THEN {Called([r EXCEPT !.ret = r.dc[download_url].value],
                 "content", download_url, TRUE, 0, FALSE)}
    ELSE {Called([r EXCEPT !.ret = content,
                           !.dc = (download_url :> [value |-> content, age |-> 0,
                                                    by |-> r.session]) @@ @],
                 "content", download_url, FALSE, 1, content = None)
          : content \in {None, RemoteContent(download_url)}}

\* get_sharepoint_fields_cached(drive_id, item_id, headers): raise_for_status
\* is not caught, so a failed request ends the run; nothing is cached then
GetSharepointFieldsCached(r, item_id) ==
    IF item_id \in DOMAIN r.fc
    THEN {Called([r EXCEPT !.ret = r.fc[item_id].value],
                 "fields", item_id, TRUE, 0, FALSE)}
    ELSE {Called([r EXCEPT !.status = "crashed"],
                 "fields", item_id, FALSE, 1, TRUE),
          Called([r EXCEPT !.ret = RemoteFields(item_id),
                           !.fc = (item_id :> [value |-> RemoteFields(item_id),
                                               age |-> 0,
                                               by |-> r.session]) @@ @],
                 "fields", item_id, FALSE, 1, FALSE)}

(* --------------------------- the UI components ------------------------- *)

\* s[:n - 1] (mutant of SliceTo: the clicked entry itself is cut off)
SliceToExclusive(s, n) ==
    SubSeq(s, 1, IF n - 1 < 0 THEN Max(Len(s) + n - 1, 0) ELSE Min(n - 1, Len(s)))

\* Python's s[:n]: a negative n counts from the end, and the bounds are clamped
SliceTo(s, n) ==
    SubSeq(s, 1, IF n < 0 THEN Max(Len(s) + n, 0) ELSE Min(n, Len(s)))

\* a callback that leaves the target alone (mutant of ClearDownloadState)
KeepDownloadState(r) == r

\* clear_download_state()
ClearDownloadState(r) == [r EXCEPT !.target = None]

\* display_breadcrumbs(): the loop from entry j (1-based; enumerate's i is j-1)
RECURSIVE DisplayBreadcrumbs(_, _, _)
DisplayBreadcrumbs(r, click, j) ==
    IF j > Len(r.path) THEN r
    ELSE LET w  == Widget("crumb", r.path[j][2])
             r1 == Render(r, w)
         IN IF r1.status = "crashed" THEN r1
            ELSE IF click = w
            THEN [ClearDownloadState(r1) EXCEPT
                      !.path = SliceTo(r.path, (j - 1) + 1),
                      !.status = "rerun", !.fired = w]
            ELSE DisplayBreadcrumbs(r1, click, j + 1)

\* sorted(items, key=lambda x: x['name']): stable, ascending
RECURSIVE InsertByName(_, _)
InsertByName(sorted, x) ==
    IF sorted = <<>> THEN <<x>>
    ELSE IF StrLess(x.name, sorted[1].name) THEN <<x>> \o sorted
    ELSE <<sorted[1]>> \o InsertByName(Tail(sorted), x)

RECURSIVE SortedByName(_)
SortedByName(items) ==
    IF items = <<>> THEN <<>>
    ELSE InsertByName(SortedByName(SubSeq(items, 1, Len(items) - 1)),
                      items[Len(items)])

\* the folders comprehension without the _is_hidden_at_root test (mutant of
\* Folders)
FoldersUnfiltered(children, item_id) ==
    LET IsFolder(c) == "folder" \in c.facets
    IN SortedByName(SelectSeq(children, IsFolder))

\* the two list comprehensions and sorts of display_folder_contents
Folders(children, item_id) ==
    LET IsShownFolder(c) ==
            "folder" \in c.facets /\ ~IsHiddenAtRoot(c.name, item_id)
    IN SortedByName(SelectSeq(children, IsShownFolder))

Files(children) ==
    LET IsFile(c) == "file" \in c.facets
    IN SortedByName(SelectSeq(children, IsFile))

\* the "Folders first" loop when Open replaces the path below the root by the
\* opened folder instead of appending to it (mutant of FoldersLoop)
RECURSIVE FoldersLoopOpenBelowRoot(_, _, _, _)
FoldersLoopOpenBelowRoot(r, folders, k, click) ==
    IF k > Len(folders) THEN r
    ELSE LET folder == folders[k]
             w  == Widget("open", folder.id)
             r1 == Render(r, w)
         IN IF r1.status = "crashed" THEN r1
            ELSE IF click = w
            THEN [ClearDownloadState(r1) EXCEPT
                      !.path = <<@[1], <<folder.name, folder.id>> >>,
                      !.status = "rerun", !.fired = w]
            ELSE FoldersLoopOpenBelowRoot(r1, folders, k + 1, click)

\* the "Folders first" loop
RECURSIVE FoldersLoop(_, _, _, _)
FoldersLoop(r, folders, k, click) ==
    IF k > Len(folders) THEN r
    ELSE LET folder == folders[k]
             w  == Widget("open", folder.id)
             r1 == Render(r, w)
         IN IF r1.status = "crashed" THEN r1
            ELSE IF click = w
            THEN [ClearDownloadState(r1) EXCEPT
                      !.path = Append(@, <<folder.name, folder.id>>),
                      !.status = "rerun", !.fired = w]
            ELSE FoldersLoop(r1, folders, k + 1, click)

\* `if content:` -- None and b"" are both falsy
Truthy(content) == content # None /\ content # ""

\* a button with `if st.button(...): st.rerun()`
ButtonThenRerun(r, w, click) ==
    LET r1 == Render(r, w) IN
    IF r1.status # "crashed" /\ click = w
    THEN [r1 EXCEPT !.status = "rerun", !.fired = w]
    ELSE r1

\* the content is fetched whether or not the item has a URL (mutant of
\* ResolveDownload)
ResolveDownloadAlwaysFetch(r, file_item, click) ==
    {IF file_item.url # None /\ Truthy(r1.ret)
     THEN Render(r1, Widget("final_dl", file_item.id))
     ELSE IF file_item.url # None
     THEN ButtonThenRerun(r1, Widget("retry", file_item.id), click)
     ELSE ButtonThenRerun(r1, Widget("ok_err", file_item.id), click)
     : r1 \in GetFileContentFromUrlCached(r, file_item.url)}

\* the column of the file that is the download target (lines 175-197)
ResolveDownload(r, file_item, click) ==
    LET file_id == file_item.id
        download_url == file_item.url
    IN IF download_url # None
       THEN {IF Truthy(r1.ret)
             THEN Render(r1, Widget("final_dl", file_id))
             ELSE ButtonThenRerun(r1, Widget("retry", file_id), click)
             : r1 \in GetFileContentFromUrlCached(r, download_url)}
       ELSE {ButtonThenRerun(r, Widget("ok_err", file_id), click)}

\* fields.get('QCDocumentNumber', "-")
QcNumber(fields) ==
    IF \E p \in fields : p[1] = "QCDocumentNumber"
    THEN (CHOOSE p \in fields : p[1] = "QCDocumentNumber")[2]
    ELSE "-"

\* the Download button without st.rerun(): the target is set and the loop
\* goes on to the next file (mutant of DownloadButton)
DownloadButtonNoRerun(r, file_id, click) ==
    LET w  == Widget("download", file_id)
        r1 == Render(r, w)
    IN IF r1.status # "crashed" /\ click = w
       THEN [r1 EXCEPT !.target = file_id, !.fired = w]
       ELSE r1

\* the column of a file that is not the download target (lines 198-201)
DownloadButton(r, file_id, click) ==
    LET w  == Widget("download", file_id)
        r1 == Render(r, w)
    IN IF r1.status # "crashed" /\ click = w
       THEN [r1 EXCEPT !.target = file_id, !.status = "rerun", !.fired = w]
       ELSE r1

\* the files loop with the column of a file resolved before the file's
\* fields are fetched (mutant of FilesLoop)
RECURSIVE FilesLoopColumnFirst(_, _, _, _)
FilesLoopColumnFirst(r, files, k, click) ==
    IF k > Len(files) \/ r.status \in {"rerun", "crashed"} THEN {r}
    ELSE LET file_item == files[k]
             file_id == file_item.id
             Row(r1) == [r1 EXCEPT !.rows = Append(@, [id |-> file_id,
                                                      qc |-> QcNumber(r1.ret)])]
             Column(r2) == IF r2.target = file_id
                           THEN ResolveDownload(r2, file_item, click)
                           ELSE {DownloadButton(r2, file_id, click)}
         IN UNION {IF r3.status \in {"rerun", "crashed"} THEN {r3}
                   ELSE UNION {IF r1.status = "crashed" THEN {r1}
                               ELSE FilesLoopColumnFirst(Row(r1), files, k + 1,
                                                         click)
                               : r1 \in GetSharepointFieldsCached(r3, file_id)}
                   : r3 \in Column(r)}

\* the "Files and metadata" loop, from file k on
RECURSIVE FilesLoop(_, _, _, _)
FilesLoop(r, files, k, click) ==
    IF k > Len(files) \/ r.status \in {"rerun", "crashed"} THEN {r}
    ELSE LET file_item == files[k]
             file_id == file_item.id
             Row(r1) == [r1 EXCEPT !.rows = Append(@, [id |-> file_id,
                                                      qc |-> QcNumber(r1.ret)])]
             Column(r2) == IF r2.target = file_id
                           THEN ResolveDownload(r2, file_item, click)
                           ELSE {DownloadButton(r2, file_id, click)}
         IN UNION {IF r1.status = "crashed" THEN {r1}
                   ELSE UNION {FilesLoop(r3, files, k + 1, click)
                               : r3 \in Column(Row(r1))}
                   : r1 \in GetSharepointFieldsCached(r, file_id)}

\* display_folder_contents(drive_id, headers, item_id, folder_name)
DisplayFolderContents(r, click) ==
    LET item_id == r.path[Len(r.path)][2]
        Listed(r1) ==
            LET children == r1.ret IN
            IF children = <<>>
            THEN {[r1 EXCEPT !.view = [NoView EXCEPT !.folder_id = item_id]]}
            ELSE LET folders == Folders(children, item_id)
                     files   == Files(children)
                     r2 == [r1 EXCEPT !.view = [folder_id |-> item_id,
                                                children |-> children,
                                                folders |-> folders,
                                                files |-> files]]
                 IN FilesLoop(FoldersLoop(r2, folders, 1, click), files, 1, click)
    IN UNION {Listed(r1) : r1 \in GetDriveChildrenCached(r, item_id)}

\* What acquire_token_for_client can answer: the identity service refuses, or
\* returns the token it returned last time, or a new token.
AuthAnswers ==
    IF tokenIssued THEN {"refused", "same", "new"} ELSE {"refused", "new"}

\* get_access_token(tenant_id, client_id, client_secret): None without a
\* request when a credential is empty, None when the service refuses
GetAccessToken ==
    IF secrets = "empty" THEN {None}
    ELSE {IF answer = "refused" THEN None ELSE answer : answer \in AuthAnswers}

\* The entries of a cache keyed by headers that a run can hit: headers is
\* {'Authorization': f"Bearer {access_token}"}, so under a new token none of
\* the stored entries has the run's key.  (The service never returns a
\* superseded token again, so those entries are never hit later either.)
HeadersCache(cache, access_token) ==
    IF access_token = "new" THEN <<>> ELSE cache

\* The call of get_access_token is recorded in the run's trace: a request is
\* made unless a credential is empty, and the call fails when it returns None.
Authenticated(r, access_token) ==
    Called(r, "token", None, FALSE, IF secrets = "empty" THEN 0 ELSE 1,
           access_token = None)

\* main() without the st.stop() of the else branch: the explorer is shown
\* although there is no token (mutant of Main)
MainWithoutStop(r, click) ==
    IF secrets = "missing" THEN {[r EXCEPT !.status = "stopped"]}
    ELSE UNION {
        LET r0 == Authenticated(r, access_token)
            r1 == DisplayBreadcrumbs(r0, click, 1)
        IN IF r1.status \in {"rerun", "crashed"} THEN {r1}
           ELSE DisplayFolderContents(r1, click)
        : access_token \in GetAccessToken}

\* main(), after the session state is initialised
Main(r, click) ==
    IF secrets = "missing" THEN {[r EXCEPT !.status = "stopped"]}
    ELSE UNION {
        IF access_token = None
        THEN {[Authenticated(r, access_token) EXCEPT !.status = "stopped"]}
        ELSE LET r0 == [Authenticated(r, access_token) EXCEPT
                            !.cc = HeadersCache(@, access_token),
                            !.fc = HeadersCache(@, access_token),
                            !.newToken = (access_token = "new")]
                 r1 == DisplayBreadcrumbs(r0, click, 1)
             IN IF r1.status \in {"rerun", "crashed"} THEN {r1}
                ELSE DisplayFolderContents(r1, click)
        : access_token \in GetAccessToken}

\* The outcomes of one script run started by a click on widget `click`
\* (NoEvent: none): the widget's on_click callback runs first, then main().
HasCallback(click) == click[1] \in {"final_dl", "retry", "ok_err"}

ScriptRun(click) ==
    Main(IF HasCallback(click) THEN ClearDownloadState(RunStart) ELSE RunStart,
         click)

\* The state of the download flow as the screen shows it: the target is
\* Ready when its Save button is rendered, Failed when its Retry or OK button
\* is, Targeted while no run has resolved it.
DownloadState ==
    IF download_target_id = None THEN "Idle"
    ELSE IF Widget("final_dl", download_target_id) \in widgets THEN "Ready"
    ELSE IF Widget("retry", download_target_id) \in widgets
            \/ Widget("ok_err", download_target_id) \in widgets THEN "Failed"
    ELSE "Targeted"

(* ------------------------------- actions ------------------------------- *)

Init ==
    /\ path = << <<RootName, "root">> >>
    /\ download_target_id = None
    /\ childrenCache = <<>>
    /\ fieldsCache = <<>>
    /\ contentCache = <<>>
    /\ secrets \in {"ok", "missing", "empty"}
    /\ tokenIssued = FALSE
    /\ status = "start"
    /\ widgets = {}
    /\ rows = <<>>
    /\ view = NoView
    /\ trace = <<>>
    /\ ev = NoEvent
    /\ fired = NoEvent
    /\ before = "Idle"
    /\ session = "A"

\* One script run, for every answer of the identity service and the drive
Pass(click) ==
    \E r \in ScriptRun(click) :
        /\ path' = r.path
        /\ download_target_id' = r.target
        /\ childrenCache' = r.cc
        /\ fieldsCache' = r.fc
        /\ contentCache' = r.dc
        /\ tokenIssued' = (tokenIssued \/ r.newToken)
        /\ status' = r.status
        /\ widgets' = r.widgets
        /\ rows' = r.rows
        /\ view' = r.view
        /\ trace' = r.trace
        /\ ev' = click
        /\ fired' = r.fired
        /\ before' = DownloadState
        /\ UNCHANGED <<secrets, session>>

\* The user clicks a widget on the screen.
Click(w) ==
    /\ status \notin {"start", "rerun"}
    /\ w \in widgets
    /\ Pass(w)

\* A click on a breadcrumb of an earlier screen reaches the script after the
\* path has changed: its key belongs to no entry of the path.
StaleCrumbClick(id) ==
    /\ status \notin {"start", "rerun"}
    /\ \A j \in 1..Len(path) : path[j][2] # id
    /\ Pass(Widget("crumb", id))

\* The first run of a session, and the run st.rerun() asks for.
Rerun ==
    /\ status \in {"start", "rerun"}
    /\ Pass(NoEvent)

\* The browser asks for a run (its Rerun command) with no widget clicked.
BrowserRerun ==
    /\ status \notin {"start", "rerun"}
    /\ Pass(NoEvent)

TickEvent == Widget("tick", "none")

\* Entries older than ttl are dropped from a cache.
Aged(cache) ==
    LET keep == {k \in DOMAIN cache : cache[k].age + TickStep < TTL} IN
    IF keep = {} THEN <<>>
    ELSE [k \in keep |-> [cache[k] EXCEPT !.age = @ + TickStep]]

\* Time passes.
Tick ==
    /\ status \notin {"start", "rerun"}
    /\ childrenCache' = Aged(childrenCache)
    /\ fieldsCache' = Aged(fieldsCache)
    /\ contentCache' = Aged(contentCache)
    /\ ev' = TickEvent
    /\ fired' = NoEvent
    /\ UNCHANGED <<path, download_target_id, secrets, tokenIssued,
                   status, widgets, rows, view, trace, before, session>>

Next ==
    \/ \E w \in widgets : Click(w)
    \/ \E id \in CrumbIds : StaleCrumbClick(id)
    \/ Rerun
    \/ BrowserRerun
    \/ Tick

Spec == Init /\ [][Next]_vars

(* ---------------------------- a second session -------------------------- *)
(* st.session_state belongs to one browser session; the stores of           *)
(* st.cache_data belong to the process and serve every session.  Session A  *)
(* stays open and makes no further run, so its session state, which no run  *)
(* of another session reads or writes, is no longer part of the state.      *)

\* A second browser session B connects: 'path' and 'download_target_id' are
\* not in its st.session_state, so main() initialises them; its screen is
\* empty; the caches are the ones session A's runs filled.
NewSession ==
    /\ session = "A"
    /\ status \notin {"start", "rerun"}
    /\ session' = "B"
    /\ path' = << <<RootName, "root">> >>
    /\ download_target_id' = None
    /\ status' = "start"
    /\ widgets' = {}
    /\ rows' = <<>>
    /\ view' = NoView
    /\ trace' = <<>>
    /\ ev' = NoEvent
    /\ fired' = NoEvent
    /\ before' = "Idle"
    /\ UNCHANGED <<childrenCache, fieldsCache, contentCache, secrets,
                   tokenIssued>>

\* Two sessions within one ttl period, each run started by a click on the
\* current screen or by st.rerun().
NextSessions ==
    \/ \E w \in widgets : Click(w)
    \/ Rerun
    \/ NewSession

SpecSessions == Init /\ [][NextSessions]_vars

(* =============================== claims ================================ *)

Ids(p) == {p[j][2] : j \in 1..Len(p)}

\* The item of the listing computed by the last run that has this id
ListedFile(file_id) ==
    CHOOSE c \in {view.files[k] : k \in 1..Len(view.files)} : c.id = file_id

RowShown(file_id) == \E k \in 1..Len(rows) : rows[k].id = file_id

Calls(fn) == {i \in 1..Len(trace) : trace[i].fn = fn}

\* C1: in every reachable state the breadcrumb path is non-empty and its
\* first entry is ("Root", "root").
C1_PathRooted ==
    /\ Len(path) >= 1
    /\ path[1] = <<RootName, "root">>

\* a breadcrumb click has cut a path of three entries down to two
C1_Witness ==
    /\ fired = Widget("crumb", "A")
    /\ Len(path) = 2
    /\ path[1] = <<RootName, "root">>

\* C2: right after a run in which an Open button or a breadcrumb button
\* returned True, the download target is None, whatever it was before.
C2_NavigationClearsTarget ==
    fired[1] \in {"crumb", "open"} => download_target_id = None

\* a folder was opened while a download was Ready
C2_Witness ==
    /\ fired[1] = "open"
    /\ before = "Ready"
    /\ download_target_id = None

\* C3: a breadcrumb click whose key belongs to entry i of the path makes the
\* path its first i entries; a breadcrumb click whose key belongs to no entry
\* of the path (an index outside the path) changes neither the path nor the
\* target, and no button of the run returns True.
C3_Truncate ==
    [][ev'[1] = "crumb" =>
         IF ev'[2] \in Ids(path) /\ status' # "stopped"
         THEN \E i \in 1..Len(path) :
                  /\ path[i][2] = ev'[2]
                  /\ path' = SubSeq(path, 1, i)
                  /\ fired' = ev'
         ELSE /\ path' = path
              /\ download_target_id' = download_target_id
              /\ fired' = NoEvent]_vars

\* a stale breadcrumb click went through main() to the end and changed nothing
C3_Witness ==
    /\ ev = Widget("crumb", "B")
    /\ "B" \notin Ids(path)
    /\ fired = NoEvent
    /\ status = "ok"

\* C4 (as claimed): when a run lists the folder that the run before it
\* listed without a failure, and the entry cached for it has not expired, the
\* listing is the same and no remote listing request is made.
C4_SecondListingFromCache ==
    [][(/\ ev' # TickEvent
        /\ view.folder_id # None
        /\ \A i \in 1..Len(trace) : ~trace[i].error
        /\ view'.folder_id = view.folder_id
        /\ view.folder_id \in DOMAIN childrenCache)
       => (/\ view'.children = view.children
           /\ \A i \in 1..Len(trace') :
                  trace'[i].fn = "children" => trace'[i].hit)]_vars

\* C5 (as claimed): Download makes the file the target; resolving a target
\* that has a URL whose content was fetched successfully shows Save; Save
\* makes the target None; Save is on a settled screen only for the target.
C5_RoundTrip ==
    /\ fired[1] = "download" => download_target_id = fired[2]
    /\ \A i \in Calls("content") :
           (/\ ev # TickEvent
            /\ trace[i].arg \in DOMAIN contentCache
            /\ contentCache[trace[i].arg].value # None)
           => \E k \in 1..Len(view.files) :
                  /\ view.files[k].url = trace[i].arg
                  /\ Widget("final_dl", view.files[k].id) \in widgets
    /\ ev[1] = "final_dl" => download_target_id = None
    /\ \A f \in FileIds :
           (Widget("final_dl", f) \in widgets /\ status # "rerun")
           => download_target_id = f

\* C6 (as claimed): after a click on Retry the file is the target again.
C6_RetryTargetsSameFile ==
    ev[1] = "retry" => download_target_id = ev[2]

\* C7: a run that reaches the column of a target without a download URL shows
\* its OK button (Failed) and makes no call for content; after a click on
\* that OK button the target is None.
C7_MissingUrl ==
    /\ \A f \in FileIds :
           (/\ download_target_id = f
            /\ RowShown(f)
            /\ fired # Widget("download", f)
            /\ ListedFile(f).url = None)
           => (/\ Widget("ok_err", f) \in widgets
               /\ Calls("content") = {})
    /\ ev[1] = "ok_err" => download_target_id = None

\* the OK button of a Failed download without URL was clicked
C7_Witness ==
    /\ ev = Widget("ok_err", "f2")
    /\ before = "Failed"
    /\ download_target_id = None

\* the pages of a folder's listing, concatenated in page order
RECURSIVE PagesFrom(_, _)
PagesFrom(item_id, k) ==
    IF k > NumPages(item_id) THEN <<>>
    ELSE RemotePage(item_id, k).value \o PagesFrom(item_id, k + 1)

\* C8: a listing fetched with no failure took one request per page, returned
\* the pages' items concatenated in page order, and is the cached entry.
C8_Pagination ==
    \A i \in Calls("children") :
        (~trace[i].hit /\ ~trace[i].error /\ ev # TickEvent)
        => (/\ trace[i].requests = NumPages(trace[i].arg)
            /\ view.children = PagesFrom(trace[i].arg, 1)
            /\ trace[i].arg \in DOMAIN childrenCache
            /\ childrenCache[trace[i].arg].value = PagesFrom(trace[i].arg, 1))

\* a listing of four pages was fetched completely
C8_Witness ==
    \E i \in Calls("children") :
        /\ ~trace[i].hit /\ ~trace[i].error
        /\ trace[i].requests = 4
        /\ Len(view.children) = 4

\* a name that starts, letters compared without case, with "MEX-" or "NIA-"
HasHiddenPrefix(name) ==
    /\ Len(name) >= 4
    /\ \/ <<UpperChar(name[1]), UpperChar(name[2]), UpperChar(name[3]), name[4]>>
            = <<77, 69, 88, 45>>
       \/ <<UpperChar(name[1]), UpperChar(name[2]), UpperChar(name[3]), name[4]>>
            = <<78, 73, 65, 45>>

InSeq(x, seq) == \E k \in 1..Len(seq) : seq[k] = x

\* C9: a listed folder is left out of the folders exactly when the folder
\* listed is the root and its name has a hidden prefix; files are never left
\* out.
C9_HiddenAtRootOnly ==
    \A k \in 1..Len(view.children) :
        LET c == view.children[k] IN
        /\ "folder" \in c.facets =>
               (~InSeq(c, view.folders)
                <=> (view.folder_id = "root" /\ HasHiddenPrefix(c.name)))
        /\ "file" \in c.facets => InSeq(c, view.files)

\* the root was listed: folder "mex-h" is left out, file "MEX-r" is not
C9_Witness ==
    /\ view.folder_id = "root"
    /\ \E k \in 1..Len(view.children) :
           view.children[k].id = "H" /\ ~InSeq(view.children[k], view.folders)
    /\ \E k \in 1..Len(view.files) : view.files[k].id = "f1"

\* C10 (as claimed): after a listing fetch in which a request failed, nothing
\* is cached for the folder.
C10_FailureNotCached ==
    \A i \in Calls("children") :
        (trace[i].error /\ ev # TickEvent)
        => trace[i].arg \notin DOMAIN childrenCache

\* C11 (as claimed): a run in which the request for one file's fields failed
\* still ends normally, shows that file's row with the placeholder "-" and
\* shows the row of every other listed file.
C11_MetadataFailureNonFatal ==
    \A i \in Calls("fields") :
        trace[i].error
        => (/\ status # "crashed"
            /\ \E k \in 1..Len(rows) :
                   rows[k].id = trace[i].arg /\ rows[k].qc = "-"
            /\ \A k \in 1..Len(view.files) : RowShown(view.files[k].id))

\* the cache a cached function reads and writes
CacheOf(fn) ==
    IF fn = "children" THEN childrenCache
    ELSE IF fn = "fields" THEN fieldsCache
    ELSE contentCache

\* C12 (as claimed): a value a run gets from a cache was stored by a run of
\* the same session.
C12_NoCrossSessionHit ==
    \A i \in 1..Len(trace) :
        (/\ trace[i].hit
         /\ ev # TickEvent
         /\ trace[i].arg \in DOMAIN CacheOf(trace[i].fn))
        => CacheOf(trace[i].fn)[trace[i].arg].by = session

\* C13: a run with a configuration option absent, and a run whose
\* authentication returns no token, is stopped; a stopped run has made no
\* listing, fields or content call and has rendered no button and no row.
C13_HaltBeforeAnything ==
    /\ (secrets = "missing" /\ status # "start") => status = "stopped"
    /\ \A i \in Calls("token") : trace[i].error => status = "stopped"
    /\ status = "stopped"
       => (/\ widgets = {}
           /\ rows = <<>>
           /\ view = NoView
           /\ \A i \in 1..Len(trace) : trace[i].fn = "token")

\* with the configuration complete, Download was clicked and the run's
\* authentication was refused
C13_Witness ==
    /\ secrets = "ok"
    /\ ev[1] = "download"
    /\ status = "stopped"
    /\ \E i \in Calls("token") : trace[i].error /\ trace[i].requests = 1
    /\ widgets = {}

\* the entry is a folder among the children of the folder with id parent_id
IsChildFolder(parent_id, entry) ==
    \E k \in 1..Len(RemoteChildren(parent_id)) :
        LET c == RemoteChildren(parent_id)[k] IN
        /\ c.id = entry[2]
        /\ c.name = entry[1]
        /\ "folder" \in c.facets

\* C14: every entry of the path after the first is a folder among the
\* children of the entry before it.
C14_AncestorChain ==
    \A i \in 2..Len(path) : IsChildFolder(path[i - 1][2], path[i])

\* folder B was opened from the listing of folder A, two levels below the root
C14_Witness ==
    /\ fired = Widget("open", "B")
    /\ Len(path) = 3
    /\ path[2][2] = "A"
    /\ path[3][2] = "B"

\* the files for which the last run rendered a control of the download
\* resolution (Save, Retry or OK): the files it showed as Ready or Failed
Resolved ==
    {f \in FileIds : \E kind \in {"final_dl", "retry", "ok_err"} :
                         Widget(kind, f) \in widgets}

\* C15: a run shows at most one file as Ready or Failed; on the screen of a
\* run that was not cut short by st.rerun() that file is the download target,
\* and a file with a Download button is not shown as Ready or Failed.
C15_AtMostOneTargeted ==
    /\ Cardinality(Resolved) <= 1
    /\ status # "rerun" => \A f \in Resolved : download_target_id = f
    /\ \A f \in Resolved : Widget("download", f) \notin widgets

\* Download of a second file was clicked while another file was shown Failed
C15_Witness ==
    /\ fired[1] = "download"
    /\ before = "Failed"
    /\ download_target_id = fired[2]
    /\ Cardinality(Resolved) <= 1

\* C16 (as claimed): a target resolved by the last run is shown Ready exactly
\* when its item has a download URL and the content retrieved for that URL
\* is not a failure (None), whatever its length.
C16_ReadyIffRetrieved ==
    \A k \in 1..Len(view.files) :
        LET f == view.files[k] IN
        (f.id \in Resolved /\ ev # TickEvent)
        => (Widget("final_dl", f.id) \in widgets
            <=> (/\ f.url # None
                 /\ f.url \in DOMAIN contentCache
                 /\ contentCache[f.url].value # None))

\* C17 (as claimed): on the screen of a run that went through to its end with
\* a file as the download target, that file is Ready or Failed.
C17_TargetResolvedInPass ==
    (status = "ok" /\ download_target_id # None)
    => DownloadState \in {"Ready", "Failed"}

\* C18 (as claimed): in the calls of one run, the listing call comes before
\* every fields call and every fields call comes before every content call.
C18_AllFieldsBeforeContent ==
    \A i, j \in 1..Len(trace) :
        /\ (trace[i].fn = "children" /\ trace[j].fn = "fields") => i < j
        /\ (trace[i].fn = "fields" /\ trace[j].fn = "content") => i < j

\* C18 (amended): in the calls of one run, the listing call comes before every
\* fields call and every content call, and the content call comes right
\* after the fields call of the file whose download URL it fetches.
C18_FieldsOfTargetBeforeContent ==
    /\ \A i, j \in 1..Len(trace) :
           (trace[i].fn = "children" /\ trace[j].fn \in {"fields", "content"})
           => i < j
    /\ \A j \in Calls("content") :
           /\ j > 1
           /\ trace[j - 1].fn = "fields"
           /\ \E k \in 1..Len(view.files) :
                  /\ view.files[k].id = trace[j - 1].arg
                  /\ view.files[k].url = trace[j].arg

\* the target is the first of two files: its content call is followed by the
\* fields call of the second file
C18_Witness ==
    \E j \in Calls("content") : \E i \in Calls("fields") :
        /\ j < i
        /\ trace[j - 1].fn = "fields"
        /\ trace[j - 1].arg = download_target_id

\* C19 (as claimed): every child of the listing is in exactly one of the
\* folders and the files, in the folders if it is a folder and in the files
\* otherwise; a folder hidden at the root is in neither.
C19_Partition ==
    \A k \in 1..Len(view.children) :
        LET c == view.children[k]
            isFolder == "folder" \in c.facets
        IN IF isFolder /\ view.folder_id = "root" /\ HasHiddenPrefix(c.name)
           THEN ~InSeq(c, view.folders) /\ ~InSeq(c, view.files)
           ELSE /\ InSeq(c, view.folders) <=> isFolder
                /\ InSeq(c, view.files) <=> ~isFolder

\* C20: the second entry of the path, if any, is not a folder whose name has
\* a hidden prefix.
C20_HiddenNeverEntered ==
    Len(path) >= 2 => ~HasHiddenPrefix(path[2][1])

\* a folder was opened from a root listing that holds the hidden folder
\* "mex-h"
C20_Witness ==
    /\ fired = Widget("open", "A")
    /\ Len(path) = 2
    /\ view.folder_id = "root"
    /\ \E k \in 1..Len(view.children) :
           /\ view.children[k].id = "H"
           /\ HasHiddenPrefix(view.children[k].name)
           /\ Widget("open", "H") \notin widgets

====
